---- MODULE Spec2Model ----
(***************************************************************************)
(* PBM contract analyzer: the session store (backend/main.py), the         *)
(* analysis orchestrator and its fallback cascade                          *)
(* (backend/services/analyzer.py), the contract library                    *)
(* (backend/services/leads.py) and the knowledge store with its updater    *)
(* (backend/services/knowledge.py).                                        *)
(*                                                                         *)
(* One orchestrator run is a thread of the executor pool; every write to   *)
(* a session field, every call of the external client and every database   *)
(* transaction is one step, so that the HTTP handlers (which run on the    *)
(* event loop) can be interleaved between any two of them.  Purely local   *)
(* computation is folded into the step that precedes it.  The labels of    *)
(* pc are the source lines of analyzer.py at which the run stands.         *)
(***************************************************************************)
EXTENDS Integers, Sequences, FiniteSets, TLC

\* ------------------------------------------------------------------ bounds
\* Uploads accepted in one process lifetime.
MaxSessions == 1
\* Rows of the leads table plus save_lead jobs not yet run.
MaxReports == 1
\* Rows the contracts table may hold when the process starts.
MaxPrior == 3
\* Calls of update_knowledge_base in one process lifetime.
MaxUpdates == 2
\* Longest library a comparison is built against, the analysed contract
\* not counted.
MaxHistory == 3

\* Longest list of pricing fields an average is taken of.
MaxEntries == 3

\* --------------------------------------------------------- program constants
\* analyzer.py:214   text[:120000]
InlineLimit == 120000
\* analyzer.py:275   benchmarks.get("contracts_count", 0) >= 3
LibraryThreshold == 3
\* knowledge.py:476  all_items[:20]
FederalCap == 20
\* knowledge.py:500-501  knowledge["knowledge_updates"][-50:]
HistoryCap == 50
\* knowledge.py:439-440  pricing_obs[-100:]
ObservationCap == 100

SessionIds == 1..MaxSessions

UpdateIds == 1..MaxUpdates

\* Lengths of the extracted text handed to the orchestrator.  The run reads
\* the text at one place only, text[:120000] at analyzer.py:214, so its
\* length is drawn there.
TextLens == {InlineLimit - 1, InlineLimit + 1}

\* models.py:67-71
PENDING == "pending"
PROCESSING == "processing"
COMPLETE == "complete"
ERROR == "error"
SessionStatus == {PENDING, PROCESSING, COMPLETE, ERROR}

\* analyzer.py:22
GRADE_ORDER == [g \in {"A", "B", "C", "D", "F"} |->
                  CASE g = "A" -> 4 [] g = "B" -> 3 [] g = "C" -> 2
                    [] g = "D" -> 1 [] g = "F" -> 0]

\* _GRADE_ORDER.get(g, 2)
GradeOrderGet(g) == IF g \in DOMAIN GRADE_ORDER THEN GRADE_ORDER[g] ELSE 2

\* Grades the external service answers with in this model.
PayloadGrades == {"B", "D"}

\* Grade of the i-th row the contracts table holds at start (i >= 1).
PriorGrade(i) == <<"A", "C", "C", "F", "B", "D">>[((i - 1) % 6) + 1]

\* ---------------------------------------------------------------- values
NoComparison == [present |-> FALSE, contracts_in_library |-> 0,
                 dir |-> "", n |-> 0]

NoAnalysis == [present |-> FALSE, grade |-> "", risk_levels |-> <<>>,
               library_comparison |-> NoComparison]

\* models.py:74-81  SessionData.__init__
SessionData == [status |-> PENDING,
                status_message |-> "Initializing...",
                analysis_result |-> NoAnalysis,
                contact_info |-> FALSE,
                pdf_path |-> FALSE,
                error_message |-> ""]

NoMessages == [transport |-> "", inline_len |-> 0]
NoPayload == [tool_use |-> FALSE, fields_ok |-> FALSE, grade |-> "",
              risk_levels |-> <<>>]
NoResponse == [tier |-> "", payload |-> NoPayload]
NoBenchmarks == [contracts_count |-> 0, grades |-> <<>>]

\* analyzer.py:245
NoStructuredOutput ==
    "Claude did not return structured analysis data. Please try again."

\* models.py:36-40  the risk levels CostRiskItem is documented with
RiskLevels == {"high", "medium", "low"}

\* A tool_use block of the analysis tool whose input lacks a required field
\* (a KeyError or a validation error at analyzer.py:250-259), and one that
\* has them all: its overall_grade and the risk_level of each of its
\* cost_risk_areas.
Incomplete == [tool_use |-> TRUE, fields_ok |-> FALSE, grade |-> "",
               risk_levels |-> <<>>]

Complete(g, risks) == [tool_use |-> TRUE, fields_ok |-> TRUE, grade |-> g,
                       risk_levels |-> risks]

\* What a response of the external service may contain: no tool_use block of
\* the analysis tool, a tool_use block whose input lacks a required field, or
\* a complete one.
Payloads == {NoPayload, Incomplete}
            \cup {Complete(g, <<"high">>) : g \in PayloadGrades}

\* knowledge.py:29  _CURATED_BENCHMARKS, and a benchmark block that differs
\* from it.
CURATED_BENCHMARKS == "curated benchmarks"
StaleBenchmarks == "benchmarks of an earlier release"

\* knowledge.py:296-362  _CURATED_STATIC
CURATED_STATIC == [legislation |-> <<"curated law 1", "curated law 2">>,
                   industry_trends |-> <<"curated trend">>]

\* A key of the knowledge dict that holds a list, and a key it lacks
\* (data.get(key) is None).
List(items) == [present |-> TRUE, items |-> items]
Missing == [present |-> FALSE, items |-> <<>>]

\* knowledge.py:371  data = {}: no key at all.  market_benchmarks "" and
\* last_updated 0 stand for the missing key; the keys read with a default
\* (.get(key, []) and .get(key, 0)) hold that default.
EmptyDict == [market_benchmarks |-> "",
              legislation |-> Missing,
              industry_trends |-> Missing,
              recent_federal_updates |-> <<>>,
              knowledge_updates |-> <<>>,
              analyses_count |-> 0,
              pricing_observations |-> <<>>,
              update_count |-> 0,
              last_updated |-> 0]

\* knowledge.py:19, 367  KNOWLEDGE_FILE: whether it exists, and its content
NoFile == [exists |-> FALSE, data |-> EmptyDict]

VARIABLES
    sessions,    \* main.py:33  the session store: session id -> SessionData
    library,     \* leads.py:45 the contracts table, rows in rowid order
    knowledge,   \* knowledge.py:19 the persisted knowledge document
    pc,          \* per run: where analyze_contract_background stands
    file_id,     \* per run: analyzer.py:179
    messages,    \* per run: analyzer.py:193/215
    response,    \* per run: analyzer.py:230
    exc,         \* per run: str(e) of the exception in flight
    benchmarks,  \* per run: analyzer.py:274
    kn,          \* knowledge.py:407 the loaded copy, per run that holds one
    calls,       \* per run: the calls the run made on its client, in order
    lead_jobs,   \* main.py:144 save_lead calls handed to the executor
    leads,       \* leads.py:31 the leads table, rows in rowid order
    clock,       \* datetime.now(timezone.utc), one tick per reading
    upc,         \* per update: where update_knowledge_base stands
    udoc,        \* knowledge.py:488 the loaded copy, per update that holds one
    lock,        \* knowledge.py:21 _lock: 0 when free, else the update holding it
    worker,      \* knowledge.py:672 where periodic_update_worker stands
    brand_retails,    \* leads.py:261 the pricing fields being averaged
    avg_brand_retail  \* leads.py:291 their average, once computed

vars == <<sessions, library, knowledge, pc, file_id, messages, response,
          exc, benchmarks, kn, calls, lead_jobs, leads, clock, upc,
          udoc, lock, worker, brand_retails, avg_brand_retail>>

\* The knowledge file and everything that only its readers and writers touch.
kb == <<knowledge, clock, upc, udoc, lock, worker>>

locals == <<file_id, messages, response, exc, benchmarks, kn, calls>>

http == <<lead_jobs, leads>>

\* The aggregation of a column of the library.
agg == <<brand_retails, avg_brand_retail>>

\* ------------------------------------------------------------- pure parts
Min(a, b) == IF a < b THEN a ELSE b
Max(a, b) == IF a > b THEN a ELSE b

\* Python 3 round() of the exact quotient num / den (den > 0): to the nearest
\* integer, an exact half to the even neighbour.
Round(num, den) ==
    LET q == num \div den
        r == num % den
    IN  IF 2 * r < den THEN q
        ELSE IF 2 * r > den THEN q + 1
        ELSE IF q % 2 = 0 THEN q ELSE q + 1

RECURSIVE CountWorse(_, _)
\* analyzer.py:28
CountWorse(grades, this_order) ==
    IF grades = <<>> THEN 0
    ELSE (IF GradeOrderGet(Head(grades)) < this_order THEN 1 ELSE 0)
         + CountWorse(Tail(grades), this_order)

\* analyzer.py:29  round(worse / total * 100).  For a library of fewer than
\* 40 contracts the double worse / total * 100 rounds as the exact quotient
\* does; from 40 on (23 / 40 * 100 is 57.49999999999999) it need not.
Percentile(worse, total) == IF total > 0 THEN Round(worse * 100, total) ELSE 0

\* GradePercentile without the floor of 1
GradePercentile_no_floor(pct) ==
    IF pct > 50 THEN [dir |-> "top", n |-> 100 - pct]
    ELSE [dir |-> "bottom", n |-> pct]

\* analyzer.py:30-33
GradePercentile(pct) ==
    IF pct > 50 THEN [dir |-> "top", n |-> Max(1, 100 - pct)]
    ELSE [dir |-> "bottom", n |-> Max(1, pct)]

\* analyzer.py:25-45
build_library_comparison(grade, bm) ==
    LET total == bm.contracts_count
        worse == CountWorse(bm.grades, GradeOrderGet(grade))
        gp == GradePercentile(Percentile(worse, total))
    IN  [present |-> TRUE, contracts_in_library |-> total,
         dir |-> gp.dir, n |-> gp.n]

\* leads.py:215-244  INSERT OR REPLACE keyed by the unique session_id
InsertOrReplace(rows, sid, grade) ==
    Append(SelectSeq(rows, LAMBDA r : r.session_id # sid),
           [session_id |-> sid, grade |-> grade])

\* leads.py:247-297
get_library_benchmarks(rows) ==
    IF Len(rows) = 0 THEN NoBenchmarks
    ELSE [contracts_count |-> Len(rows),
          grades |-> [i \in 1..Len(rows) |-> rows[i].grade]]

\* A string is the sequence of its characters.
Digits == {"0", "1", "2", "3", "4", "5", "6", "7", "8", "9"}

DigitChars == <<"0", "1", "2", "3", "4", "5", "6", "7", "8", "9">>

DigitValue(c) == CHOOSE d \in 0..9 : DigitChars[d + 1] = c

\* str.lower(), letter by letter
LowerCase ==
    "A" :> "a" @@ "B" :> "b" @@ "C" :> "c" @@ "D" :> "d" @@ "E" :> "e" @@
    "F" :> "f" @@ "G" :> "g" @@ "H" :> "h" @@ "I" :> "i" @@ "J" :> "j" @@
    "K" :> "k" @@ "L" :> "l" @@ "M" :> "m" @@ "N" :> "n" @@ "O" :> "o" @@
    "P" :> "p" @@ "Q" :> "q" @@ "R" :> "r" @@ "S" :> "s" @@ "T" :> "t" @@
    "U" :> "u" @@ "V" :> "v" @@ "W" :> "w" @@ "X" :> "x" @@ "Y" :> "y" @@
    "Z" :> "z"

Lower(c) == IF c \in DOMAIN LowerCase THEN LowerCase[c] ELSE c

\* leads.py:209  s.lower().startswith("not")
StartsWithNot(s) ==
    /\ Len(s) >= 3
    /\ <<Lower(s[1]), Lower(s[2]), Lower(s[3])>> = <<"n", "o", "t">>

RECURSIVE DigitRun(_, _)
\* \d+ at position i, greedy: the position of its last digit, i - 1 when s
\* has no digit at i
DigitRun(s, i) ==
    IF i > Len(s) \/ s[i] \notin Digits THEN i - 1 ELSE DigitRun(s, i + 1)

RECURSIVE SkipSpace(_, _)
\* \s* at position i: the first position behind the white space
SkipSpace(s, i) ==
    IF i > Len(s) \/ s[i] # " " THEN i ELSE SkipSpace(s, i + 1)

\* leads.py:211  (\d+(?:\.\d+)?) at position i: the position of the last
\* character of the number the group takes (i - 1: no number at i)
NumberEnd(s, i) ==
    LET a == DigitRun(s, i)
    IN  IF a >= i /\ a + 2 <= Len(s) /\ s[a + 1] = "." /\ s[a + 2] \in Digits
          THEN DigitRun(s, a + 2)
        ELSE a

\* leads.py:211  the pattern (\d+(?:\.\d+)?)\s*% matches at position i.  A
\* shorter number never makes it match where the greedy one fails: the
\* character behind a shorter number is a digit or a dot.
MatchAt(s, i) ==
    LET c == SkipSpace(s, NumberEnd(s, i) + 1)
    IN  /\ NumberEnd(s, i) >= i
        /\ c <= Len(s)
        /\ s[c] = "%"

RECURSIVE IntValue(_, _, _)
\* The number the digits s[i..j] write.
IntValue(s, i, j) ==
    IF j < i THEN 0 ELSE 10 * IntValue(s, i, j - 1) + DigitValue(s[j])

\* leads.py:212  float(m.group(1)), in tenths, of the number at s[i..j]
\* (exact for the numbers the fields of this model hold: at most one
\* decimal)
FloatTenths(s, i, j) ==
    LET a == DigitRun(s, i)
    IN  IF a = j THEN 10 * IntValue(s, i, a)
        ELSE 10 * IntValue(s, i, a) + DigitValue(s[a + 2])

\* Optional[float]
None == [is_none |-> TRUE, tenths |-> 0]

Float(t) == [is_none |-> FALSE, tenths |-> t]

\* leads.py:207-212  re.search finds the leftmost match
parse_pct(s) ==
    IF s = <<>> \/ StartsWithNot(s) THEN None
    ELSE IF \E i \in 1..Len(s) : MatchAt(s, i)
      THEN LET i == CHOOSE k \in 1..Len(s) :
                      MatchAt(s, k) /\ \A l \in 1..(k - 1) : ~MatchAt(s, l)
           IN  Float(FloatTenths(s, i, NumberEnd(s, i)))
    ELSE None

RECURSIVE SumTenths(_)
\* sum(vals)
SumTenths(vals) ==
    IF vals = <<>> THEN 0 ELSE Head(vals).tenths + SumTenths(Tail(vals))

RECURSIVE Decimal(_)
\* The decimal digits of n >= 0.
Decimal(n) ==
    IF n < 10 THEN <<DigitChars[n + 1]>>
    ELSE Append(Decimal(n \div 10), DigitChars[(n % 10) + 1])

\* leads.py:285  f"AWP-{x:.1f}%" for x = num / den tenths: the fixed-point
\* format rounds the double to the nearest tenth, a tie to the even one.
\* (The double sum(vals) / len(vals) rounds as the exact quotient does for
\* the lists of this model: numbers that are whole or end in .5, fewer
\* than 10 of them.)
FormatAverage(num, den) ==
    LET t == Round(num, den)
    IN  <<"A", "W", "P", "-">> \o Decimal(t \div 10)
        \o <<".", DigitChars[(t % 10) + 1], "%">>

NotAvailable == <<"N", "/", "A">>

\* leads.py:280-285  _avg_str
avg_str(strs) ==
    LET parsed == [i \in 1..Len(strs) |-> parse_pct(strs[i])]
        vals == SelectSeq(parsed, LAMBDA v : ~v.is_none)
    IN  IF vals = <<>> THEN NotAvailable
        ELSE FormatAverage(SumTenths(vals), Len(vals))

HasRecord(sid) == \E i \in 1..Len(library) : library[i].session_id = sid

\* not data.get(key)  (knowledge.py:374, 376): the key is missing or its
\* list is empty
Falsy(v) == ~v.present \/ v.items = <<>>

\* load_knowledge keeping a benchmark block the file has
load_knowledge_trusts_file(file) ==
    LET data == IF file.exists THEN file.data ELSE EmptyDict
    IN  [data EXCEPT
           !.market_benchmarks = IF @ = "" THEN CURATED_BENCHMARKS ELSE @,
           !.legislation = IF Falsy(@) THEN List(CURATED_STATIC.legislation)
                           ELSE @,
           !.industry_trends = IF Falsy(@)
                                 THEN List(CURATED_STATIC.industry_trends)
                               ELSE @]

\* load_knowledge overlaying the curated lists as it overlays the benchmarks
load_knowledge_reseeds(file) ==
    LET data == IF file.exists THEN file.data ELSE EmptyDict
    IN  [data EXCEPT
           !.market_benchmarks = CURATED_BENCHMARKS,
           !.legislation = List(CURATED_STATIC.legislation),
           !.industry_trends = List(CURATED_STATIC.industry_trends)]

\* knowledge.py:365-378
load_knowledge(file) ==
    LET data == IF file.exists THEN file.data ELSE EmptyDict
    IN  [data EXCEPT
           !.market_benchmarks = CURATED_BENCHMARKS,
           !.legislation = IF Falsy(@) THEN List(CURATED_STATIC.legislation)
                           ELSE @,
           !.industry_trends = IF Falsy(@)
                                 THEN List(CURATED_STATIC.industry_trends)
                               ELSE @]

\* knowledge.py:382-383  the stamp and the counter save_knowledge sets
\* before it writes
save_knowledge(d, now) ==
    [d EXCEPT !.last_updated = now, !.update_count = @ + 1]

\* seq[:n]
FirstN(seq, n) == SubSeq(seq, 1, Min(Len(seq), n))

\* seq[-n:]
LastN(seq, n) == SubSeq(seq, Max(1, Len(seq) - n + 1), Len(seq))

\* knowledge.py:409-441  the part of the document record_analysis_insights
\* changes: the counter and the pricing observations
record_analysis_insights(d, grade, now) ==
    [d EXCEPT
       !.analyses_count = @ + 1,
       !.pricing_observations =
           LastN(Append(@, [date |-> now, grade |-> grade]), ObservationCap)]

\* knowledge.py:460-462
existing_titles(d) ==
    {d.recent_federal_updates[i] : i \in 1..Len(d.recent_federal_updates)}

\* knowledge.py:458-474  the articles kept: a non-empty title (0 stands for
\* the empty title) that no stored item has
new_items(d, articles) ==
    SelectSeq(articles, LAMBDA t : t # 0 /\ t \notin existing_titles(d))

\* fetch_federal_register_updates putting the new items behind the stored
\* ones
fetch_federal_register_updates_appends(d, fetched) ==
    IF fetched.ok
      THEN [knowledge |->
              [d EXCEPT !.recent_federal_updates =
                 FirstN(@ \o new_items(d, fetched.articles), FederalCap)],
            updates |-> new_items(d, fetched.articles)]
      ELSE [knowledge |-> d, updates |-> <<>>]

\* knowledge.py:445-479  fetched.ok: the request returned with status 200;
\* otherwise (another status, or an exception caught at 477) the document is
\* left as it was and nothing is reported.
fetch_federal_register_updates(d, fetched) ==
    IF fetched.ok
      THEN [knowledge |->
              [d EXCEPT !.recent_federal_updates =
                 FirstN(new_items(d, fetched.articles) \o @, FederalCap)],
            updates |-> new_items(d, fetched.articles)]
      ELSE [knowledge |-> d, updates |-> <<>>]

\* UpdateDocument cutting the history at its front
UpdateDocument_keeps_oldest(d, fetched, now) ==
    LET f == fetch_federal_register_updates(d, fetched)
    IN  IF f.updates # <<>>
          THEN [f.knowledge EXCEPT !.knowledge_updates =
                  FirstN(Append(@, [timestamp |-> now, updates |-> f.updates]),
                         HistoryCap)]
          ELSE f.knowledge

\* knowledge.py:489-501  update_knowledge_base between its load and its save
UpdateDocument(d, fetched, now) ==
    LET f == fetch_federal_register_updates(d, fetched)
    IN  IF f.updates # <<>>
          THEN [f.knowledge EXCEPT !.knowledge_updates =
                  LastN(Append(@, [timestamp |-> now, updates |-> f.updates]),
                        HistoryCap)]
          ELSE f.knowledge

\* ------------------------------------------------------------------- Init
InitLibrary(k) == [i \in 1..k |-> [session_id |-> 0 - i, grade |-> PriorGrade(i)]]

\* knowledge.py:689-690  the worker thread has been started and has not yet
\* made its first call: at is the line of periodic_update_worker it stands
\* at, u the update it is inside (0: none), errors the lines that logged an
\* update error.
Started_thread == [at |-> "L675", u |-> 0, errors |-> <<>>]

\* No run and no update has started: every frame is empty.
NoFrames ==
    /\ file_id = [s \in SessionIds |-> FALSE]
    /\ messages = [s \in SessionIds |-> NoMessages]
    /\ response = [s \in SessionIds |-> NoResponse]
    /\ exc = [s \in SessionIds |-> ""]
    /\ benchmarks = [s \in SessionIds |-> NoBenchmarks]
    /\ kn = <<>>
    /\ calls = [s \in SessionIds |-> <<>>]
    /\ lead_jobs = <<>>
    /\ leads = <<>>
    /\ clock = 1
    /\ upc = [u \in UpdateIds |-> "none"]
    /\ udoc = <<>>
    /\ lock = 0
    /\ worker = Started_thread

\* No column of the library is being averaged.
NoAverage ==
    /\ brand_retails = <<>>
    /\ avg_brand_retail = <<>>

\* A process started on a fresh data directory: no knowledge file yet.
Init ==
    /\ NoAverage
    /\ sessions = <<>>
    /\ \E k \in 0..MaxPrior : library = InitLibrary(k)
    /\ knowledge = NoFile
    /\ pc = [s \in SessionIds |-> "none"]
    /\ NoFrames

\* ---------------------------------------------------------- the HTTP side
\* analyze_contract dispatching the run without inserting the session
analyze_contract_dispatches_only ==
    /\ Cardinality(DOMAIN sessions) < MaxSessions
    /\ LET sid == Cardinality(DOMAIN sessions) + 1
       IN  /\ pc[sid] = "none"
           /\ pc' = [pc EXCEPT ![sid] = "L170"]
    /\ UNCHANGED <<sessions, library, kb, locals, http, agg>>

\* main.py:70-93  POST /api/analyze, for an upload that passes validation:
\* a fresh identifier (uuid4), the session inserted as PENDING, then the run
\* dispatched with the extracted text.
analyze_contract ==
    /\ Cardinality(DOMAIN sessions) < MaxSessions
    /\ LET sid == Cardinality(DOMAIN sessions) + 1
       IN  /\ sessions' = sessions @@ (sid :> SessionData)
           /\ pc' = [pc EXCEPT ![sid] = "L170"]
    /\ UNCHANGED <<library, kb, locals, http, agg>>

\* main.py:96-106  GET /api/status/{session_id}: the response
status_response(sid) ==
    IF sid \notin DOMAIN sessions
      THEN [code |-> 404, status |-> "", status_message |-> "",
            error_message |-> ""]
      ELSE [code |-> 200, status |-> sessions[sid].status,
            status_message |-> sessions[sid].status_message,
            error_message |-> sessions[sid].error_message]

\* main.py:96-106  the handler reads the session and writes nothing
get_status(sid) ==
    /\ status_response(sid).code \in {200, 404}
    /\ UNCHANGED vars

\* main.py:126-130  the detail of the 400: the current status is part of it
report_detail(sid) ==
    <<"Analysis is not complete yet. Current status: ", sessions[sid].status>>

\* report_code without the check of the status
report_code_unchecked(sid, pdf_ok) ==
    IF sid \notin DOMAIN sessions THEN 404
    ELSE IF ~pdf_ok THEN 500
    ELSE 200

\* main.py:119-154  POST /api/report/{session_id}: the status code
report_code(sid, pdf_ok) ==
    IF sid \notin DOMAIN sessions THEN 404
    ELSE IF sessions[sid].status # COMPLETE THEN 400
    ELSE IF ~pdf_ok THEN 500
    ELSE 200

\* main.py:119-154  pdf_ok: generate_pdf_report returns without raising
submit_contact_and_get_report(sid, pdf_ok) ==
    /\ Len(leads) + Len(lead_jobs) < MaxReports
    /\ LET code == report_code(sid, pdf_ok)
       IN  /\ sessions' =
                 IF code \in {404, 400} THEN sessions
                 ELSE IF code = 500
                   THEN [sessions EXCEPT ![sid].contact_info = TRUE]
                 ELSE [sessions EXCEPT ![sid].contact_info = TRUE,
                                       ![sid].pdf_path = TRUE]
           /\ lead_jobs' = IF code = 200 THEN Append(lead_jobs, sid)
                           ELSE lead_jobs
    /\ UNCHANGED <<library, kb, pc, locals, leads, agg>>

\* main.py:157-181  GET /api/download/{session_id}: the status code.
\* on_disk: os.path.exists(session.pdf_path)
download_code(sid, on_disk) ==
    IF sid \notin DOMAIN sessions THEN 404
    ELSE IF ~sessions[sid].pdf_path \/ ~on_disk THEN 404
    ELSE 200

\* main.py:157-181  the handler reads the session and writes nothing
download_report(sid, on_disk) ==
    /\ download_code(sid, on_disk) \in {200, 404}
    /\ UNCHANGED vars

\* leads.py:65-92  save_lead on an executor thread (the pool runs the jobs
\* in any order): the row is inserted, or the insert raises and the job is
\* lost.
save_lead ==
    /\ \E i \in 1..Len(lead_jobs), ok \in BOOLEAN :
         /\ lead_jobs' = [j \in 1..(Len(lead_jobs) - 1) |->
                            IF j < i THEN lead_jobs[j] ELSE lead_jobs[j + 1]]
         /\ leads' = IF ok THEN Append(leads, lead_jobs[i]) ELSE leads
    /\ UNCHANGED <<sessions, library, kb, pc, locals, agg>>

\* The frames of a function that holds a loaded knowledge document: frame
\* k created with document d, and frame k dropped.
Hold(frames, k, d) == [j \in DOMAIN frames \cup {k} |->
                         IF j = k THEN d ELSE frames[j]]

Drop(frames, k) == [j \in DOMAIN frames \ {k} |-> frames[j]]

\* ------------------------------------- analyzer.py:169-291, step by step
Goto(s, l) == pc' = [pc EXCEPT ![s] = l]

SetField(s, f, v) == sessions' = [sessions EXCEPT ![s][f] = v]

Call(op, tier, s, ok) ==
    [op |-> op, tier |-> tier, transport |-> messages[s].transport,
     inline_len |-> messages[s].inline_len, ok |-> ok]

Log(s, c) == calls' = [calls EXCEPT ![s] = Append(@, c)]

\* analyzer.py:170  the client is constructed before the try block: when the
\* constructor raises, the exception leaves analyze_contract_background.
L170(s) ==
    /\ pc[s] = "L170"
    /\ \E ok \in BOOLEAN : Goto(s, IF ok THEN "L173" ELSE "escaped")
    /\ UNCHANGED <<sessions, library, kb, locals, http, agg>>

\* analyzer.py:173
L173(s) ==
    /\ pc[s] = "L173"
    /\ SetField(s, "status", PROCESSING)
    /\ Goto(s, "L174")
    /\ UNCHANGED <<library, kb, locals, http, agg>>

\* analyzer.py:174
L174(s) ==
    /\ pc[s] = "L174"
    /\ SetField(s, "status_message", "Uploading contract to analysis engine...")
    /\ Goto(s, "L176")
    /\ UNCHANGED <<library, kb, locals, http, agg>>

\* analyzer.py:176  build_system_prompt() reads the knowledge file, under
\* the lock of load_knowledge, and the library; it writes nothing and may
\* raise.
L176(s) ==
    /\ pc[s] = "L176"
    /\ lock = 0
    /\ \E ok \in BOOLEAN :
         IF ok THEN Goto(s, "L182") /\ UNCHANGED exc
         ELSE Goto(s, "L288") /\ exc' = [exc EXCEPT ![s] = "prompt composition failed"]
    /\ UNCHANGED <<sessions, library, kb, file_id, messages,
                   response, benchmarks, kn, calls, http, agg>>

\* analyzer.py:179-188  one attempt to stage the document; a failure is
\* logged and leaves file_id = None.
L182(s) ==
    /\ pc[s] = "L182"
    /\ \E ok \in BOOLEAN :
         /\ file_id' = [file_id EXCEPT ![s] = ok]
         /\ Log(s, Call("files.upload", "", s, ok))
    /\ Goto(s, "L190")
    /\ UNCHANGED <<sessions, library, kb, messages, response,
                   exc, benchmarks, kn, http, agg>>

\* analyzer.py:192-226
BuildMessages(fid, len) ==
    IF fid THEN [transport |-> "file", inline_len |-> 0]
    ELSE [transport |-> "inline", inline_len |-> Min(len, InlineLimit)]

\* analyzer.py:190-226
L190(s) ==
    /\ pc[s] = "L190"
    /\ SetField(s, "status_message", "Reading and parsing contract terms...")
    /\ \E len \in TextLens :
         messages' = [messages EXCEPT ![s] = BuildMessages(file_id[s], len)]
    /\ Goto(s, "L228")
    /\ UNCHANGED <<library, kb, file_id, response, exc,
                   benchmarks, kn, calls, http, agg>>

\* L228 with the cascade entered at its first tier whatever staging did
L228_ignores_staging(s) ==
    /\ pc[s] = "L228"
    /\ SetField(s, "status_message",
                "Analyzing pricing terms and contract structure...")
    /\ Goto(s, "L314")
    /\ UNCHANGED <<library, kb, locals, http, agg>>

\* analyzer.py:228-235 and 311-312: entering _call_claude_with_fallbacks
\* with use_files_api = (file_id is not None).
L228(s) ==
    /\ pc[s] = "L228"
    /\ SetField(s, "status_message",
                "Analyzing pricing terms and contract structure...")
    /\ Goto(s, IF file_id[s] THEN "L314" ELSE "L333")
    /\ UNCHANGED <<library, kb, locals, http, agg>>

\* One messages.create call of the cascade at label l: it returns a response,
\* and the cascade returns it, or it raises and the run goes on at label
\* next.
Attempt(s, l, tier, next) ==
    /\ pc[s] = l
    /\ \/ \E p \in Payloads :
            /\ response' = [response EXCEPT ![s] = [tier |-> tier, payload |-> p]]
            /\ Log(s, Call("messages.create", tier, s, TRUE))
            /\ Goto(s, "L237")
            /\ UNCHANGED exc
       \/ /\ Log(s, Call("messages.create", tier, s, FALSE))
          /\ Goto(s, next)
          /\ exc' = [exc EXCEPT ![s] = IF next = "L288" THEN "tier d failed" ELSE @]
          /\ UNCHANGED response
    /\ UNCHANGED <<sessions, library, kb, file_id, messages,
                   benchmarks, kn, http, agg>>

\* analyzer.py:313-320  Files API + thinking
L314(s) == Attempt(s, "L314", "a", "L324")

\* L324 with its except clause falling through to the last tier
L324_skips_c(s) == Attempt(s, "L324", "b", "L341")

\* analyzer.py:322-329  Files API without thinking
L324(s) == Attempt(s, "L324", "b", "L333")

\* analyzer.py:331-338  direct text + thinking
L333(s) == Attempt(s, "L333", "c", "L341")

\* analyzer.py:340-341  direct text, no thinking; its exception propagates
L341(s) == Attempt(s, "L341", "d", "L288")

\* analyzer.py:237-245
L237(s) ==
    /\ pc[s] = "L237"
    /\ SetField(s, "status_message", "Comparing to market benchmarks...")
    /\ IF response[s].payload.tool_use
         THEN Goto(s, "L247") /\ UNCHANGED exc
         ELSE /\ Goto(s, "L288")
              /\ exc' = [exc EXCEPT ![s] = NoStructuredOutput]
    /\ UNCHANGED <<library, kb, file_id, messages, response,
                   benchmarks, kn, calls, http, agg>>

\* L247 going on to the status before the report is published
L247_skips_publication(s) ==
    /\ pc[s] = "L247"
    /\ SetField(s, "status_message", "Generating recommendations...")
    /\ IF response[s].payload.fields_ok
         THEN Goto(s, "L262") /\ UNCHANGED exc
         ELSE /\ Goto(s, "L288")
              /\ exc' = [exc EXCEPT ![s] = "missing field"]
    /\ UNCHANGED <<library, kb, file_id, messages, response,
                   benchmarks, kn, calls, http, agg>>

\* analyzer.py:247-259
L247(s) ==
    /\ pc[s] = "L247"
    /\ SetField(s, "status_message", "Generating recommendations...")
    /\ IF response[s].payload.fields_ok
         THEN Goto(s, "L261") /\ UNCHANGED exc
         ELSE /\ Goto(s, "L288")
              /\ exc' = [exc EXCEPT ![s] = "missing field"]
    /\ UNCHANGED <<library, kb, file_id, messages, response,
                   benchmarks, kn, calls, http, agg>>

\* analyzer.py:250-259  the report built from the tool_use input
Analysis(r) == [present |-> TRUE, grade |-> r.payload.grade,
                risk_levels |-> r.payload.risk_levels,
                library_comparison |-> NoComparison]

\* L261 with the contract saved as soon as the report is built
L261_saves_first(s) ==
    /\ pc[s] = "L261"
    /\ SetField(s, "analysis_result", Analysis(response[s]))
    /\ library' = InsertOrReplace(library, s, response[s].payload.grade)
    /\ Goto(s, "L262")
    /\ UNCHANGED <<kb, locals, http, agg>>

\* analyzer.py:261
L261(s) ==
    /\ pc[s] = "L261"
    /\ SetField(s, "analysis_result", Analysis(response[s]))
    /\ Goto(s, "L262")
    /\ UNCHANGED <<library, kb, locals, http, agg>>

\* analyzer.py:262
L262(s) ==
    /\ pc[s] = "L262"
    /\ SetField(s, "status", COMPLETE)
    /\ Goto(s, "L263")
    /\ UNCHANGED <<library, kb, locals, http, agg>>

\* analyzer.py:263
L263(s) ==
    /\ pc[s] = "L263"
    /\ SetField(s, "status_message", "Analysis complete")
    /\ Goto(s, "L267")
    /\ UNCHANGED <<library, kb, locals, http, agg>>

\* L267 without the try block around record_analysis_insights
L267_uncaught(s) ==
    /\ pc[s] = "L267"
    /\ lock = 0
    /\ \E ok \in BOOLEAN :
         IF ok THEN kn' = Hold(kn, s, load_knowledge(knowledge))
                    /\ Goto(s, "L442") /\ UNCHANGED exc
         ELSE /\ UNCHANGED kn
              /\ Goto(s, "L288")
              /\ exc' = [exc EXCEPT ![s] = "insight recording failed"]
    /\ UNCHANGED <<sessions, library, kb, file_id, messages,
                   response, benchmarks, calls, http, agg>>

\* analyzer.py:266-269 with knowledge.py:407  record_analysis_insights
\* loads the document, under the lock of load_knowledge; an exception is
\* caught at 268.
L267(s) ==
    /\ pc[s] = "L267"
    /\ lock = 0
    /\ \E ok \in BOOLEAN :
         IF ok THEN kn' = Hold(kn, s, load_knowledge(knowledge))
                    /\ Goto(s, "L442")
         ELSE UNCHANGED kn /\ Goto(s, "L273")
    /\ UNCHANGED <<sessions, library, kb, file_id, messages,
                   response, exc, benchmarks, calls, http, agg>>

\* A completed write of the knowledge file (knowledge.py:384-387), stamped
\* with the time save_knowledge read at line 382
Write(d) ==
    /\ knowledge' = [exists |-> TRUE, data |-> d]
    /\ clock' = clock + 1

\* knowledge.py:409-442 and 381-387  the loaded copy, modified, is written
\* back under the lock of save_knowledge; an exception is caught at
\* analyzer.py:268.  Either way the frame
\* of record_analysis_insights is dropped.
L442(s) ==
    /\ pc[s] = "L442"
    /\ lock = 0
    /\ \E ok \in BOOLEAN :
         IF ok
           THEN Write(save_knowledge(
                        record_analysis_insights(
                          kn[s], sessions[s].analysis_result.grade, clock),
                        clock))
           ELSE UNCHANGED <<knowledge, clock>>
    /\ kn' = Drop(kn, s)
    /\ Goto(s, "L273")
    /\ UNCHANGED <<sessions, library, file_id, messages, response, exc,
                   benchmarks, calls, http, upc, udoc, lock, worker, agg>>

\* L273 without the try block around save_contract
L273_uncaught(s) ==
    /\ pc[s] = "L273"
    /\ \E ok \in BOOLEAN :
         IF ok
           THEN /\ library' = InsertOrReplace(library, s,
                                 sessions[s].analysis_result.grade)
                /\ Goto(s, "L274")
                /\ UNCHANGED exc
           ELSE /\ UNCHANGED library
                /\ Goto(s, "L288")
                /\ exc' = [exc EXCEPT ![s] = "library write failed"]
    /\ UNCHANGED <<sessions, kb, file_id, messages, response,
                   benchmarks, kn, calls, http, agg>>

\* analyzer.py:273  save_contract; an exception is caught at 277.
L273(s) ==
    /\ pc[s] = "L273"
    /\ \E ok \in BOOLEAN :
         IF ok
           THEN /\ library' = InsertOrReplace(library, s,
                                 sessions[s].analysis_result.grade)
                /\ Goto(s, "L274")
           ELSE UNCHANGED library /\ Goto(s, "L281")
    /\ UNCHANGED <<sessions, kb, locals, http, agg>>

\* analyzer.py:274-275  get_library_benchmarks; an exception is caught at 277.
L274(s) ==
    /\ pc[s] = "L274"
    /\ \E ok \in BOOLEAN :
         IF ok
           THEN LET bm == get_library_benchmarks(library)
                IN  /\ benchmarks' = [benchmarks EXCEPT ![s] = bm]
                    /\ Goto(s, IF bm.contracts_count >= LibraryThreshold
                                 THEN "L276" ELSE "L281")
           ELSE UNCHANGED benchmarks /\ Goto(s, "L281")
    /\ UNCHANGED <<sessions, library, kb, file_id, messages,
                   response, exc, kn, calls, http, agg>>

\* analyzer.py:276  analysis is the object the session holds
L276(s) ==
    /\ pc[s] = "L276"
    /\ sessions' = [sessions EXCEPT ![s].analysis_result.library_comparison =
                      build_library_comparison(sessions[s].analysis_result.grade,
                                               benchmarks[s])]
    /\ Goto(s, "L281")
    /\ UNCHANGED <<library, kb, locals, http, agg>>

\* analyzer.py:280-285  the staged file is deleted, errors ignored
L281(s) ==
    /\ pc[s] = "L281"
    /\ IF file_id[s]
         THEN \E ok \in BOOLEAN : Log(s, Call("files.delete", "", s, ok))
         ELSE UNCHANGED calls
    /\ Goto(s, "return")
    /\ UNCHANGED <<sessions, library, kb, file_id, messages,
                   response, exc, benchmarks, kn, http, agg>>

\* analyzer.py:288
L288(s) ==
    /\ pc[s] = "L288"
    /\ SetField(s, "status", ERROR)
    /\ Goto(s, "L289")
    /\ UNCHANGED <<library, kb, locals, http, agg>>

\* analyzer.py:289
L289(s) ==
    /\ pc[s] = "L289"
    /\ SetField(s, "status_message", "Analysis failed")
    /\ Goto(s, "L290")
    /\ UNCHANGED <<library, kb, locals, http, agg>>

\* analyzer.py:290-291
L290(s) ==
    /\ pc[s] = "L290"
    /\ SetField(s, "error_message", exc[s])
    /\ Goto(s, "return")
    /\ UNCHANGED <<library, kb, locals, http, agg>>

\* analyze_contract_background returns None: its frame, and with it the
\* client, is dropped.
Return(s) ==
    /\ pc[s] = "return"
    /\ Goto(s, "done")
    /\ file_id' = [file_id EXCEPT ![s] = FALSE]
    /\ messages' = [messages EXCEPT ![s] = NoMessages]
    /\ response' = [response EXCEPT ![s] = NoResponse]
    /\ exc' = [exc EXCEPT ![s] = ""]
    /\ benchmarks' = [benchmarks EXCEPT ![s] = NoBenchmarks]
    /\ kn' = Drop(kn, s)
    /\ calls' = [calls EXCEPT ![s] = <<>>]
    /\ UNCHANGED <<sessions, library, kb, http, agg>>

\* analyzer.py:169-291
analyze_contract_background(s) ==
    \/ L170(s) \/ L173(s) \/ L174(s) \/ L176(s) \/ L182(s) \/ L190(s)
    \/ L228(s) \/ L314(s) \/ L324(s) \/ L333(s) \/ L341(s) \/ L237(s)
    \/ L247(s) \/ L261(s) \/ L262(s) \/ L263(s) \/ L267(s) \/ L442(s)
    \/ L273(s) \/ L274(s) \/ L276(s) \/ L281(s) \/ L288(s) \/ L289(s)
    \/ L290(s) \/ Return(s)

\* The analysis pipeline: uploads, the runs they dispatch, status polls.
Next ==
    \/ analyze_contract
    \/ \E s \in SessionIds : analyze_contract_background(s)
    \/ \E s \in SessionIds : get_status(s)

Spec == Init /\ [][Next]_vars

\* ------------------------------------------- the library comparison alone
\* Grade histories of the contracts saved before the analysed one; the last
\* is the history of the specification's example ([A,B,B,C,C,C,D,F] with
\* the analysed contract, graded B, counted in).
PriorHistories ==
    UNION {[1..n -> DOMAIN GRADE_ORDER] : n \in (LibraryThreshold - 1)..MaxHistory}
    \cup {<<"A", "B", "C", "C", "C", "D", "F">>}

\* The rows of the library after save_contract (analyzer.py:273) stored the
\* contract of session sid, graded g, behind the contracts of history h.
LibraryOf(h, sid, g) ==
    InsertOrReplace([i \in 1..Len(h) |-> [session_id |-> 0 - i, grade |-> h[i]]],
                    sid, g)

\* A run that stands at analyzer.py:276: staging failed, tier c answered
\* with a report graded g, insight recording failed, the contract was saved
\* behind a history h and the benchmarks were read.
InitComparison ==
    \E h \in PriorHistories, g \in DOMAIN GRADE_ORDER :
        LET run == 1
            sent == BuildMessages(FALSE, InlineLimit - 1)
            answer == [tier |-> "c",
                       payload |-> Complete(g, <<"high">>)]
        IN  /\ sessions = (run :> [SessionData EXCEPT
                                     !.status = COMPLETE,
                                     !.status_message = "Analysis complete",
                                     !.analysis_result = Analysis(answer)])
            /\ library = LibraryOf(h, run, g)
            /\ knowledge = NoFile
            /\ pc = [s \in SessionIds |-> IF s = run THEN "L276" ELSE "none"]
            /\ file_id = [s \in SessionIds |-> FALSE]
            /\ messages = [s \in SessionIds |->
                             IF s = run THEN sent ELSE NoMessages]
            /\ response = [s \in SessionIds |->
                             IF s = run THEN answer ELSE NoResponse]
            /\ exc = [s \in SessionIds |-> ""]
            /\ benchmarks = [s \in SessionIds |->
                               IF s = run THEN get_library_benchmarks(library)
                               ELSE NoBenchmarks]
            /\ kn = <<>>
            /\ calls = [s \in SessionIds |->
                          IF s = run
                            THEN <<[op |-> "files.upload", tier |-> "",
                                    transport |-> "", inline_len |-> 0,
                                    ok |-> FALSE],
                                   [op |-> "messages.create", tier |-> "c",
                                    transport |-> sent.transport,
                                    inline_len |-> sent.inline_len,
                                    ok |-> TRUE]>>
                          ELSE <<>>]
            /\ lead_jobs = <<>>
            /\ leads = <<>>
            /\ clock = 1
            /\ upc = [u \in UpdateIds |-> "none"]
            /\ lock = 0
            /\ worker = Started_thread
            /\ udoc = <<>>
            /\ brand_retails = <<>>
            /\ avg_brand_retail = <<>>

\* analyzer.py:276-285 and the return
NextComparison ==
    \/ \E s \in SessionIds : L276(s)
    \/ \E s \in SessionIds : L281(s)
    \/ \E s \in SessionIds : Return(s)

SpecComparison == InitComparison /\ [][NextComparison]_vars

\* ------------------------------------------- the average of a column alone
\* Pricing fields as the contracts table holds them: free text returned by
\* the external service, "" for a NULL (leads.py:271).
Fields == {
    \* "AWP-18%"
    <<"A", "W", "P", "-", "1", "8", "%">>,
    \* "AWP-22%"
    <<"A", "W", "P", "-", "2", "2", "%">>,
    \* "Not specified in contract"
    <<"N", "o", "t", " ", "s", "p", "e", "c", "i", "f", "i", "e", "d", " ",
      "i", "n", " ", "c", "o", "n", "t", "r", "a", "c", "t">>,
    \* "NOT SPECIFIED"
    <<"N", "O", "T", " ", "S", "P", "E", "C", "I", "F", "I", "E", "D">>,
    \* ""
    <<>>,
    \* "AWP - 16.5 %"
    <<"A", "W", "P", " ", "-", " ", "1", "6", ".", "5", " ", "%">>,
    \* "AWP minus 18 percent"
    <<"A", "W", "P", " ", "m", "i", "n", "u", "s", " ", "1", "8", " ", "p",
      "e", "r", "c", "e", "n", "t">>,
    \* "Not less than AWP-15%"
    <<"N", "o", "t", " ", "l", "e", "s", "s", " ", "t", "h", "a", "n", " ",
      "A", "W", "P", "-", "1", "5", "%">>,
    \* "2 tiers: AWP-17% / AWP-19%"
    <<"2", " ", "t", "i", "e", "r", "s", ":", " ", "A", "W", "P", "-", "1",
      "7", "%", " ", "/", " ", "A", "W", "P", "-", "1", "9", "%">>}

RECURSIVE Lists(_)
\* The lists of at most n fields.
Lists(n) ==
    IF n = 0 THEN {<<>>}
    ELSE Lists(n - 1)
         \cup {Append(l, f) : l \in {m \in Lists(n - 1) : Len(m) = n - 1},
                              f \in Fields}

\* get_library_benchmarks has read the rows of a library and collected one
\* of their pricing columns (leads.py:249-271); nothing else has happened.
InitAverage ==
    /\ sessions = <<>>
    /\ library = <<>>
    /\ knowledge = NoFile
    /\ pc = [s \in SessionIds |-> "none"]
    /\ NoFrames
    /\ brand_retails \in Lists(MaxEntries)
    /\ avg_brand_retail = <<>>

\* leads.py:291  "avg_brand_retail": _avg_str(brand_retails)
AvgBrandRetail ==
    /\ avg_brand_retail = <<>>
    /\ avg_brand_retail' = avg_str(brand_retails)
    /\ UNCHANGED <<sessions, library, kb, pc, locals, http, brand_retails>>

NextAverage == AvgBrandRetail

SpecAverage == InitAverage /\ [][NextAverage]_vars

\* ----------------------------------------------- the deserialization alone
\* The strings a tool_use input may hold as overall_grade and as the
\* risk_level of its cost_risk_areas: the schema of the tool
\* (analyzer.py:94, 121-124) names the admissible ones, the service is not
\* bound to it.
ReturnedGrades == DOMAIN GRADE_ORDER \cup {"E", "b"}

ReturnedRisks == {<<>>, <<"high">>, <<"low", "medium">>, <<"high", "critical">>}

ToolInputs == {Incomplete}
              \cup {Complete(g, r) : g \in ReturnedGrades, r \in ReturnedRisks}

\* A run that stands at analyzer.py:247: staging failed and tier c answered
\* with a tool_use block of the analysis tool.
InitParse ==
    \E input \in ToolInputs, k \in 0..MaxPrior :
        LET run == 1
            sent == BuildMessages(FALSE, InlineLimit - 1)
            answer == [tier |-> "c", payload |-> input]
        IN  /\ sessions = (run :> [SessionData EXCEPT
                                     !.status = PROCESSING,
                                     !.status_message =
                                         "Comparing to market benchmarks..."])
            /\ library = InitLibrary(k)
            /\ knowledge = NoFile
            /\ pc = [s \in SessionIds |-> IF s = run THEN "L247" ELSE "none"]
            /\ file_id = [s \in SessionIds |-> FALSE]
            /\ messages = [s \in SessionIds |->
                             IF s = run THEN sent ELSE NoMessages]
            /\ response = [s \in SessionIds |->
                             IF s = run THEN answer ELSE NoResponse]
            /\ exc = [s \in SessionIds |-> ""]
            /\ benchmarks = [s \in SessionIds |-> NoBenchmarks]
            /\ kn = <<>>
            /\ calls = [s \in SessionIds |->
                          IF s = run
                            THEN <<[op |-> "files.upload", tier |-> "",
                                    transport |-> "", inline_len |-> 0,
                                    ok |-> FALSE],
                                   [op |-> "messages.create", tier |-> "c",
                                    transport |-> sent.transport,
                                    inline_len |-> sent.inline_len,
                                    ok |-> TRUE]>>
                          ELSE <<>>]
            /\ lead_jobs = <<>>
            /\ leads = <<>>
            /\ clock = 1
            /\ upc = [u \in UpdateIds |-> "none"]
            /\ lock = 0
            /\ worker = Started_thread
            /\ udoc = <<>>
            /\ brand_retails = <<>>
            /\ avg_brand_retail = <<>>

\* analyzer.py:247-291 and the return
NextParse ==
    \E s \in SessionIds :
        \/ L247(s) \/ L261(s) \/ L262(s) \/ L263(s) \/ L267(s) \/ L442(s)
        \/ L273(s) \/ L274(s) \/ L276(s) \/ L281(s) \/ L288(s) \/ L289(s)
        \/ L290(s) \/ Return(s)

SpecParse == InitParse /\ [][NextParse]_vars

\* ------------------------------------- the knowledge store and its updater
\* Titles of federal-register articles are numbers: a stored list of n items
\* holds n, ..., 1 (newest first), 101 and 102 are titles no stored item
\* has, 0 is the empty title.
StoredFederal(n) == [i \in 1..n |-> n + 1 - i]

\* A stored history of n entries, the last one stamped 0.
StoredHistory(n) == [i \in 1..n |-> [timestamp |-> i - n, updates |-> <<i>>]]

\* The lists a persisted document may hold under "legislation" and
\* "industry_trends": none, an empty one, one with an entry of its own.
PersistedLists == {Missing, List(<<>>), List(<<"persisted entry">>)}

\* Lengths of the federal-register list and of the update history of a
\* persisted document.
PersistedLengths == {<<0, 0>>, <<2, HistoryCap - 1>>,
                     <<FederalCap - 1, HistoryCap>>, <<FederalCap, 1>>}

\* What KNOWLEDGE_FILE may hold when the process starts: nothing, or a
\* document written by an earlier process or release.
PersistedFiles ==
    {NoFile} \cup
    {[exists |-> TRUE,
      data |-> [EmptyDict EXCEPT
                  !.market_benchmarks = bm,
                  !.legislation = leg,
                  !.industry_trends = tr,
                  !.recent_federal_updates = StoredFederal(len[1]),
                  !.knowledge_updates = StoredHistory(len[2]),
                  !.update_count = len[2]]] :
       bm \in {"", StaleBenchmarks, CURATED_BENCHMARKS},
       leg \in PersistedLists, tr \in PersistedLists,
       len \in PersistedLengths}

\* knowledge.py:446-457  what the request to the Federal Register gives:
\* status 200 with a list of articles (their titles), or anything else.
Feeds == {<<>>, <<2, 101>>, <<101, 101>>, <<101, 102>>, <<0, 102>>}

Fetches == {[ok |-> FALSE, articles |-> <<>>]}
           \cup {[ok |-> TRUE, articles |-> a] : a \in Feeds}

\* A process started with a knowledge file of any content, no upload yet.
InitKnowledge ==
    /\ NoAverage
    /\ sessions = <<>>
    /\ library = <<>>
    /\ knowledge \in PersistedFiles
    /\ pc = [s \in SessionIds |-> "none"]
    /\ NoFrames

UGoto(u, l) == upc' = [upc EXCEPT ![u] = l]

\* knowledge.py:488 and 366  update_knowledge_base is called: load_knowledge
\* reaches `with _lock` and enters when the lock is free.
Enter(u) ==
    /\ upc[u] = "none"
    /\ \A v \in UpdateIds : v < u => upc[v] # "none"
    /\ lock = 0
    /\ lock' = u
    /\ UGoto(u, "L367")
    /\ UNCHANGED <<sessions, library, pc, locals, http, knowledge, clock,
                   udoc, agg>>

\* main.py:214-219  POST /api/knowledge/update calls update_knowledge_base
\* on an executor thread.
K488(u) == Enter(u) /\ UNCHANGED worker

\* Leave without the try blocks of the worker: an exception ends the thread
Leave_uncaught(u, raised) ==
    worker' = IF worker.u = u
                THEN IF raised THEN [worker EXCEPT !.at = "exit", !.u = 0]
                     ELSE [worker EXCEPT !.at = "L680", !.u = 0]
              ELSE worker

\* knowledge.py:674-684  update_knowledge_base returns to its caller or
\* raises.  The worker logs the exception it catches (677, 683) and, either
\* way, goes on to time.sleep at line 680.
Leave(u, raised) ==
    worker' = IF worker.u = u
                THEN [at |-> "L680", u |-> 0,
                      errors |-> IF raised
                                   THEN Append(worker.errors,
                                               IF worker.at = "L675"
                                                 THEN "L677" ELSE "L683")
                                 ELSE worker.errors]
              ELSE worker

\* K367 with the lock kept until update_knowledge_base has saved
K367_keeps_lock(u) ==
    /\ upc[u] = "L367"
    /\ \E ok \in BOOLEAN :
         IF ok THEN /\ udoc' = Hold(udoc, u, load_knowledge(knowledge))
                    /\ UGoto(u, "L491")
                    /\ UNCHANGED <<worker, lock>>
         ELSE UNCHANGED udoc /\ UGoto(u, "raised") /\ Leave(u, TRUE)
              /\ lock' = 0
    /\ UNCHANGED <<sessions, library, pc, locals, http, knowledge, clock, agg>>

\* knowledge.py:367-377  inside the lock the file is read, or the read
\* raises; the with block releases the lock either way.  The curated
\* sections are laid over the copy and the copy is returned.
K367(u) ==
    /\ upc[u] = "L367"
    /\ lock' = 0
    /\ \E ok \in BOOLEAN :
         IF ok THEN /\ udoc' = Hold(udoc, u, load_knowledge(knowledge))
                    /\ UGoto(u, "L491")
                    /\ UNCHANGED worker
         ELSE UNCHANGED udoc /\ UGoto(u, "raised") /\ Leave(u, TRUE)
    /\ UNCHANGED <<sessions, library, pc, locals, http, knowledge, clock, agg>>

\* knowledge.py:491-501  the fetch, outside any lock, and the update record
\* stamped at line 496 when something new was found.
K491(u) ==
    /\ upc[u] = "L491"
    /\ \E fetched \in Fetches :
         /\ udoc' = [udoc EXCEPT ![u] = UpdateDocument(@, fetched, clock)]
         /\ clock' = IF fetch_federal_register_updates(udoc[u], fetched)
                          .updates # <<>>
                       THEN clock + 1 ELSE clock
    /\ UGoto(u, "L503")
    /\ UNCHANGED <<sessions, library, pc, locals, http, knowledge, lock,
                   worker, agg>>

\* knowledge.py:503 and 381-384  save_knowledge stamps the copy, reaches
\* `with _lock` and enters when the lock is free.
K503(u) ==
    /\ upc[u] = "L503"
    /\ lock = 0
    /\ lock' = u
    /\ udoc' = [udoc EXCEPT ![u] = save_knowledge(@, clock)]
    /\ clock' = clock + 1
    /\ UGoto(u, "L385")
    /\ UNCHANGED <<sessions, library, pc, locals, http, knowledge, worker, agg>>

\* knowledge.py:385-387 and 504-505  inside the lock the copy is written,
\* or the write raises; the with block releases the lock either way and
\* the frame is dropped.
K385(u) ==
    /\ upc[u] = "L385"
    /\ lock' = 0
    /\ \E ok \in BOOLEAN :
         IF ok THEN /\ knowledge' = [exists |-> TRUE, data |-> udoc[u]]
                    /\ UGoto(u, "done")
                    /\ Leave(u, FALSE)
         ELSE UNCHANGED knowledge /\ UGoto(u, "raised") /\ Leave(u, TRUE)
    /\ udoc' = Drop(udoc, u)
    /\ UNCHANGED <<sessions, library, pc, locals, http, clock, agg>>

\* knowledge.py:482-505
update_knowledge_base(u) == K488(u) \/ K367(u) \/ K491(u) \/ K503(u) \/ K385(u)

\* knowledge.py:674-675  the initial call: the first thing the thread does
W675 ==
    /\ worker.at = "L675"
    /\ worker.u = 0
    /\ \E u \in UpdateIds : Enter(u) /\ worker' = [worker EXCEPT !.u = u]

\* knowledge.py:680  time.sleep(24 * 3600) returns
W680 ==
    /\ worker.at = "L680"
    /\ worker' = [worker EXCEPT !.at = "L681"]
    /\ UNCHANGED <<sessions, library, pc, locals, http, knowledge, clock,
                   upc, udoc, lock, agg>>

\* knowledge.py:681-682  the periodic call
W681 ==
    /\ worker.at = "L681"
    /\ worker.u = 0
    /\ \E u \in UpdateIds : Enter(u) /\ worker' = [worker EXCEPT !.u = u]

\* knowledge.py:672-684
periodic_update_worker == W675 \/ W680 \/ W681

\* knowledge.py:390-402  the response of GET /api/knowledge/status
knowledge_status ==
    LET k == load_knowledge(knowledge)
    IN  [last_updated |-> k.last_updated,
         update_count |-> k.update_count,
         analyses_count |-> k.analyses_count,
         legislation_count |-> Len(k.legislation.items),
         industry_trends_count |-> Len(k.industry_trends.items),
         recent_updates |-> LastN(k.knowledge_updates, 5),
         contracts_in_library |-> get_library_benchmarks(library).contracts_count]

\* main.py:209-211  the handler loads the document, under the lock of
\* load_knowledge, and writes nothing
get_knowledge_status ==
    /\ lock = 0
    /\ knowledge_status.update_count >= 0
    /\ UNCHANGED vars

\* The knowledge store: updates and status requests.
NextKnowledge ==
    \/ \E u \in UpdateIds : update_knowledge_base(u)
    \/ get_knowledge_status

SpecKnowledge == InitKnowledge /\ [][NextKnowledge]_vars

\* The knowledge store with its background updater: the worker thread,
\* manual updates and status requests.
NextUpdater ==
    \/ periodic_update_worker
    \/ \E u \in UpdateIds : update_knowledge_base(u)
    \/ get_knowledge_status

\* Threads run: the worker's sleep ends (knowledge.py:680), a thread at
\* `with _lock` enters when the lock stays free, and a thread inside
\* update_knowledge_base takes its next step.  Requests are not required to
\* arrive.
FairUpdater ==
    /\ WF_vars(periodic_update_worker)
    /\ \A u \in UpdateIds :
          WF_vars(K367(u) \/ K491(u) \/ K503(u) \/ K385(u))

\* A process started on a fresh data directory, its worker thread started,
\* no upload yet.
InitUpdater ==
    /\ NoAverage
    /\ sessions = <<>>
    /\ library = <<>>
    /\ knowledge = NoFile
    /\ pc = [s \in SessionIds |-> "none"]
    /\ NoFrames

SpecUpdater == InitUpdater /\ [][NextUpdater]_vars /\ FairUpdater

\* The pipeline, whose runs record their insights, together with the
\* updates of the knowledge document.
NextLearning ==
    \/ Next
    \/ \E u \in UpdateIds : update_knowledge_base(u)

\* A process started without a knowledge file, on a library of MaxPrior
\* contracts.
InitLearning == Init /\ library = InitLibrary(MaxPrior)

SpecLearning == InitLearning /\ [][NextLearning]_vars

\* The pipeline together with the report endpoint and the lead jobs it
\* hands to the executor.
NextReports ==
    \/ Next
    \/ \E s \in SessionIds, pdf_ok \in BOOLEAN :
         submit_contact_and_get_report(s, pdf_ok)
    \/ \E s \in SessionIds, on_disk \in BOOLEAN : download_report(s, on_disk)
    \/ save_lead

SpecReports == Init /\ [][NextReports]_vars

\* ======================================================== the properties
Started == DOMAIN sessions

\* The messages.create calls a run has made, in order.
TierCalls(s) == SelectSeq(calls[s], LAMBDA c : c.op = "messages.create")

\* The files.upload calls a run has made, in order.
UploadCalls(s) == SelectSeq(calls[s], LAMBDA c : c.op = "files.upload")

\* The tiers of the cascade that apply to a run: all four when the document
\* was staged, the inline ones otherwise.
Applicable(s) == IF file_id[s] THEN <<"a", "b", "c", "d">> ELSE <<"c", "d">>

\* Labels at which the run stands after line 262.
AfterComplete == {"L263", "L267", "L442", "L273", "L274", "L276", "L281"}

StatusStep(a, b) ==
    \/ a = b
    \/ a = PENDING /\ b = PROCESSING
    \/ a = PROCESSING /\ b \in {COMPLETE, ERROR}

\* C1: the status of a session changes only along PENDING -> PROCESSING ->
\* COMPLETE or PENDING -> PROCESSING -> ERROR, under every interleaving of
\* the run with status polls and report requests: no step backwards, none
\* that skips PROCESSING, none out of COMPLETE or ERROR; a new session
\* starts PENDING.
C1_StatusForward ==
    [][/\ \A s \in Started :
            /\ s \in DOMAIN sessions'
            /\ StatusStep(sessions[s].status, sessions'[s].status)
       /\ \A s \in DOMAIN sessions' \ Started : sessions'[s].status = PENDING
      ]_vars

\* A run went through to COMPLETE and ended, and a report was requested.
C1_Witness ==
    \E s \in Started :
        /\ pc[s] = "done"
        /\ sessions[s].status = COMPLETE
        /\ sessions[s].pdf_path

\* C2: every dispatched run leaves its session in a terminal status: once
\* the run has ended, by returning or by raising, the session is COMPLETE
\* or ERROR.
C2_EndsTerminal ==
    \A s \in Started :
        pc[s] \in {"done", "escaped"} => sessions[s].status \in {COMPLETE, ERROR}

\* C3: no failure leaves analyze_contract_background: the run never ends by
\* raising, and a run that returns after a failure before COMPLETE has put
\* the session in ERROR with the failure's message in error_message.
C3_NothingEscapes ==
    \A s \in Started :
        /\ pc[s] # "escaped"
        /\ pc[s] = "return" /\ exc[s] # ""
             => /\ sessions[s].status = ERROR
                /\ sessions[s].error_message = exc[s]

\* C4: the cascade calls its tiers in the order a, b, c, d, each at most
\* once and each only after every earlier applicable tier has raised, and
\* none after a tier has returned; the report of a COMPLETE session is the
\* payload of the one tier that returned, so when a and b raise and c
\* returns a complete payload the session is COMPLETE with c's payload and
\* d is not called.
C4_CascadeOrder ==
    \A s \in Started :
        LET t == TierCalls(s)
        IN  /\ Len(t) <= Len(Applicable(s))
            /\ \A i \in 1..Len(t) : t[i].tier = Applicable(s)[i]
            /\ \A i \in 1..Len(t) : i < Len(t) => ~t[i].ok
            /\ pc[s] \in AfterComplete \cup {"return"} /\ exc[s] = ""
                 => /\ sessions[s].status = COMPLETE
                    /\ t # <<>> /\ t[Len(t)].ok
                    /\ t[Len(t)].tier = response[s].tier
                    /\ sessions[s].analysis_result.grade
                         = response[s].payload.grade
            /\ response[s].tier = "c" /\ response[s].payload.fields_ok
                 => /\ \A i \in 1..Len(t) : t[i].tier # "d"
                    /\ sessions[s].status \in {PROCESSING, COMPLETE}

\* Tiers a and b raised, tier c returned, and the session is COMPLETE.
C4_Witness ==
    \E s \in Started :
        /\ Len(TierCalls(s)) = 3
        /\ ~TierCalls(s)[1].ok /\ ~TierCalls(s)[2].ok /\ TierCalls(s)[3].ok
        /\ TierCalls(s)[3].tier = "c"
        /\ sessions[s].status = COMPLETE
        /\ sessions[s].analysis_result.grade = "D"

\* C5: a tier whose response lacks the analyze_pbm_contract payload counts
\* as failed and the next tier is attempted: the run fails with the "no
\* structured output" error only when every applicable tier has been
\* called, and a response without the payload is returned by the last
\* applicable tier only.
C5_StopsOnlyAtPayload ==
    \A s \in Started :
        /\ exc[s] = NoStructuredOutput
             => Len(TierCalls(s)) = Len(Applicable(s))
        /\ response[s].tier # "" /\ ~response[s].payload.tool_use
             => response[s].tier = "d"

\* C6: when staging fails, tiers a and b are never called in that run, the
\* run goes to tier c and then d, and staging is attempted once per run,
\* failed or not.
C6_StagingFailed ==
    \A s \in Started :
        LET u == UploadCalls(s)
            t == TierCalls(s)
        IN  /\ Len(u) <= 1
            /\ u # <<>> /\ ~u[1].ok
                 => /\ \A i \in 1..Len(calls[s]) :
                          calls[s][i].tier \notin {"a", "b"}
                    /\ Len(t) <= 2
                    /\ \A i \in 1..Len(t) : t[i].tier = <<"c", "d">>[i]
                    /\ pc[s] \notin {"L314", "L324"}

\* Staging failed, tier c raised and tier d was called.
C6_Witness ==
    \E s \in Started :
        /\ UploadCalls(s) # <<>> /\ ~UploadCalls(s)[1].ok
        /\ Len(TierCalls(s)) = 2
        /\ TierCalls(s)[1].tier = "c" /\ ~TierCalls(s)[1].ok
        /\ TierCalls(s)[2].tier = "d"

\* C7: every request of an inline tier, c or d, carries the contract text
\* inline, cut to at most 120,000 characters, and no reference to the
\* staged upload, also when staging succeeded and a and b raised before.
C7_InlineTiersSendText ==
    \A s \in Started :
        \A i \in 1..Len(calls[s]) :
            calls[s][i].tier \in {"c", "d"}
              => /\ calls[s][i].transport = "inline"
                 /\ calls[s][i].inline_len <= InlineLimit

\* A step of run s in which a best-effort call after the parse raised: the
\* knowledge load or save of record_analysis_insights, save_contract,
\* get_library_benchmarks, or the deletion of the staged upload.
BestEffortFailure(s) ==
    \/ pc[s] = "L267" /\ pc'[s] = "L273"
    \/ pc[s] = "L442" /\ pc'[s] = "L273" /\ knowledge' = knowledge
    \/ pc[s] = "L273" /\ pc'[s] = "L281"
    \/ pc[s] = "L274" /\ pc'[s] = "L281" /\ benchmarks'[s] = benchmarks[s]
    \/ /\ pc[s] = "L281"
       /\ calls'[s] # calls[s]
       /\ ~calls'[s][Len(calls'[s])].ok

C9_RecordIffComplete ==
    \A s \in Started : HasRecord(s) <=> sessions[s].status = COMPLETE

\* C9, amended: a session has a ContractRecord only if its status is
\* COMPLETE, and never more than one; a COMPLETE session has none until
\* save_contract has run, and none at all when save_contract failed.
C9_RecordOnlyIfComplete ==
    \A s \in Started :
        /\ HasRecord(s) => sessions[s].status = COMPLETE
        /\ Cardinality({i \in 1..Len(library) : library[i].session_id = s}) <= 1
        /\ pc[s] \in {"L274", "L276"} => HasRecord(s)

\* A session is COMPLETE and its ContractRecord is in the library.
C9_Witness ==
    \E s \in Started :
        /\ HasRecord(s)
        /\ sessions[s].status = COMPLETE
        /\ pc[s] = "done"

\* C10: a completed analysis carries a library comparison if and only if
\* the library held at least 3 contracts other than the one analysed when
\* the library was queried, and the comparison counts those contracts only.
C10_ComparisonIffThreePrior ==
    \A s \in Started :
        /\ sessions[s].analysis_result.library_comparison.present
             => /\ benchmarks[s].contracts_count - 1 >= 3
                /\ sessions[s].analysis_result.library_comparison
                       .contracts_in_library
                     = benchmarks[s].contracts_count - 1
        /\ pc[s] \in {"L281", "return"}
           /\ benchmarks[s].contracts_count - 1 >= 3
             => sessions[s].analysis_result.library_comparison.present

\* The comparison of a session, and the historical grades it was built
\* from, while the run still holds them.
Comparison(s) == sessions[s].analysis_result.library_comparison

Built(s) == Comparison(s).present /\ pc[s] \in {"L281", "return"}

\* Historical grades ranked strictly below the grade of the session's report.
Worse(s) ==
    Cardinality({i \in 1..Len(benchmarks[s].grades) :
                   GRADE_ORDER[benchmarks[s].grades[i]]
                     < GRADE_ORDER[sessions[s].analysis_result.grade]})

\* Rounding to the nearest integer, an exact half upwards (62.5 to 63).
RoundHalfUp(num, den) == (2 * num + den) \div (2 * den)

\* The phrase of a percentile, as the direction and the number N of
\* "top N%" and "bottom N%".
Phrase(pct) ==
    IF pct > 50 THEN [dir |-> "top", n |-> IF 100 - pct < 1 THEN 1 ELSE 100 - pct]
    ELSE [dir |-> "bottom", n |-> IF pct < 1 THEN 1 ELSE pct]

\* C11: the percentile of a comparison is 100 x worse / total rounded to the
\* nearest integer, an exact half upwards, where worse counts the historical
\* grades ranked strictly below the report's: the history [A,B,B,C,C,C,D,F]
\* with a report graded B gives worse = 5, 63 and "top 37%".
C11_PercentileRoundsHalfUp ==
    \A s \in Started :
        Built(s) =>
            /\ Comparison(s).contracts_in_library = Len(benchmarks[s].grades)
            /\ [dir |-> Comparison(s).dir, n |-> Comparison(s).n]
                 = Phrase(RoundHalfUp(100 * Worse(s), Len(benchmarks[s].grades)))

\* C12: the phrase of a percentile pct in 0..100 is "top N%" with
\* N = max(1, 100 - pct) exactly when pct > 50, and "bottom N%" with
\* N = max(1, pct) otherwise, so N lies in 1..50 and neither "top 0%" nor
\* "bottom 0%" is produced: for every pct, and in every comparison built.
C12_PhraseFloor ==
    /\ \A pct \in 0..100 :
          /\ GradePercentile(pct) = Phrase(pct)
          /\ GradePercentile(pct).n \in 1..50
          /\ GradePercentile(pct).dir = "top" <=> pct > 50
    /\ \A s \in Started :
          Comparison(s).present =>
            /\ Comparison(s).dir \in {"top", "bottom"}
            /\ Comparison(s).n \in 1..50
            /\ Built(s) =>
                 [dir |-> Comparison(s).dir, n |-> Comparison(s).n]
                   = Phrase(Percentile(Worse(s), Len(benchmarks[s].grades)))

\* A comparison was built for a report no historical grade is worse than:
\* the percentile is 0 and the phrase is "bottom 1%".
C12_Witness ==
    \E s \in Started :
        /\ Built(s)
        /\ Worse(s) = 0
        /\ Comparison(s).dir = "bottom"
        /\ Comparison(s).n = 1

\* The messages the run publishes for its processing steps
\* (analyzer.py:174, 190, 228, 237, 247).
ProcessingMessages ==
    {"Uploading contract to analysis engine...",
     "Reading and parsing contract terms...",
     "Analyzing pricing terms and contract structure...",
     "Comparing to market benchmarks...",
     "Generating recommendations..."}

\* C13: a status poll, at whatever point of the run it is served, that
\* returns the status PROCESSING returns a message published for a
\* processing step, never the "Initializing..." of the PENDING state.
C13_NoTornStatus ==
    \A s \in SessionIds :
        status_response(s).status = PROCESSING
          => status_response(s).status_message \in ProcessingMessages

\* C14: from the first state in which a session is COMPLETE its analysis
\* result, the library comparison included, never changes.
C14_ReportImmutable ==
    [][\A s \in Started :
          sessions[s].status = COMPLETE
            => sessions'[s].analysis_result = sessions[s].analysis_result
      ]_vars

\* Update u loads the document, fetches, or completes its write in this
\* step.
Loading(u) == upc[u] = "L367" /\ upc'[u] = "L491"
Fetching(u) == upc[u] = "L491" /\ upc'[u] = "L503"
Saving(u) == upc[u] = "L385" /\ upc'[u] = "done"

\* The file was written since the process started (the stamps of this
\* process are 1 and later).
Written == knowledge.exists /\ knowledge.data.last_updated >= 1

\* The list the file holds under a key; a file that does not exist holds
\* none.
Persisted(key) == IF knowledge.exists THEN knowledge.data[key] ELSE Missing

\* C15: every load of the knowledge document returns the curated benchmark
\* table as its benchmark block, whatever is persisted: no file, a document
\* without the block, a document with another block.
C15_LoadOverlaysBenchmarks ==
    /\ load_knowledge(knowledge).market_benchmarks = CURATED_BENCHMARKS
    /\ \A u \in UpdateIds :
          upc[u] \in {"L491", "L503", "L385"}
            => udoc[u].market_benchmarks = CURATED_BENCHMARKS
    /\ \A s \in SessionIds :
          pc[s] = "L442" => kn[s].market_benchmarks = CURATED_BENCHMARKS

\* An update has loaded a file whose benchmark block is not the curated one.
C15_Witness ==
    \E u \in UpdateIds :
        /\ upc[u] = "L491"
        /\ knowledge.exists
        /\ knowledge.data.market_benchmarks = StaleBenchmarks
        /\ udoc[u].market_benchmarks = CURATED_BENCHMARKS

\* C16 as stated: a load seeds the legislation list and the trend list from
\* the curated defaults only when the persisted document has no such list; a
\* list the document has is returned as it is, and no write replaces it.
C16_SeededOnlyWhenAbsent ==
    [][\A key \in {"legislation", "industry_trends"} :
          /\ \A u \in UpdateIds :
                Loading(u) => udoc'[u][key] =
                              IF Persisted(key).present THEN Persisted(key)
                              ELSE List(CURATED_STATIC[key])
          /\ Persisted(key).present
                => knowledge'.data[key] = knowledge.data[key]
      ]_vars

\* C16, amended: a load seeds a list from the curated defaults when the
\* persisted document has no such list or an empty one; a list with at
\* least one entry is returned as it is, and no write replaces it.
C16_SeededWhenAbsentOrEmpty ==
    [][\A key \in {"legislation", "industry_trends"} :
          /\ \A u \in UpdateIds :
                Loading(u) => udoc'[u][key] =
                              IF Persisted(key).present
                                 /\ Persisted(key).items # <<>>
                                THEN Persisted(key)
                              ELSE List(CURATED_STATIC[key])
          /\ Persisted(key).present /\ Persisted(key).items # <<>>
                => knowledge'.data[key] = knowledge.data[key]
      ]_vars

\* An update has written the document back: the legislation list is still
\* the persisted one, the trend list has been seeded.
C16_Witness ==
    /\ Written
    /\ knowledge.data.legislation = List(<<"persisted entry">>)
    /\ knowledge.data.industry_trends = List(CURATED_STATIC.industry_trends)

Federal(d) == d.recent_federal_updates

History(d) == d.knowledge_updates

Titles(seq) == {seq[i] : i \in 1..Len(seq)}

\* C17: the stored federal-register list never holds two entries with the
\* same title, whatever the feed returns: fetching [B, C] over the titles
\* {A, B} leaves exactly one B.
C17_NoDuplicateTitles ==
    \A i, j \in 1..Len(Federal(knowledge.data)) :
        Federal(knowledge.data)[i] = Federal(knowledge.data)[j] => i = j

\* C18: the stored federal-register list has at most 20 entries; an update
\* puts the items it adds before every item of the list it loaded, keeps
\* those in their order and, when the cap is exceeded, drops the last
\* ones; and it writes that list.
C18_FederalListOrder ==
    [][/\ Len(Federal(knowledge'.data)) <= FederalCap
       /\ \A u \in UpdateIds :
            /\ Fetching(u) =>
                 LET old == Federal(udoc[u])
                     new == Federal(udoc'[u])
                 IN  /\ Len(new) <= FederalCap
                     /\ \E k \in 0..Len(new) :
                          /\ \A i \in 1..k : new[i] \notin Titles(old)
                          /\ Len(new) - k <= Len(old)
                          /\ \A i \in 1..(Len(new) - k) : new[k + i] = old[i]
                          /\ Len(new) < FederalCap => Len(new) - k = Len(old)
            /\ Saving(u) => Federal(knowledge'.data) = Federal(udoc[u])
      ]_vars

\* Two new items were put before a stored list of 19: the list holds 20,
\* the new ones first, and the oldest stored item is gone.
C18_Witness ==
    /\ Written
    /\ Federal(knowledge.data) =
         <<101, 102>> \o SubSeq(StoredFederal(FederalCap - 1), 1, FederalCap - 2)

\* The history of an update before and after its fetch: one entry stamped
\* now was appended and the last 50 entries kept.
Appended(old, new) ==
    /\ new # <<>>
    /\ new[Len(new)].timestamp = clock
    /\ Len(new) = IF Len(old) < HistoryCap THEN Len(old) + 1 ELSE HistoryCap
    /\ \A i \in 1..(Len(new) - 1) : new[i] = old[Len(old) + 1 - Len(new) + i]

\* The stored history holds at most 50 entries, in the order of their
\* stamps, and a write stores the history the update holds.
HistoryKept ==
    /\ Len(History(knowledge'.data)) <= HistoryCap
    /\ \A i \in 1..(Len(History(knowledge'.data)) - 1) :
          History(knowledge'.data)[i].timestamp
            < History(knowledge'.data)[i + 1].timestamp
    /\ \A u \in UpdateIds :
          Saving(u) => History(knowledge'.data) = History(udoc[u])

\* C19 as stated: every update operation appends one stamped entry to the
\* history, and the stored history holds at most 50 entries, the most
\* recent ones in chronological order.
C19_EveryUpdateAppends ==
    [][/\ HistoryKept
       /\ \A u \in UpdateIds :
            Fetching(u) => Appended(History(udoc[u]), History(udoc'[u]))
      ]_vars

\* C19, amended: an update operation whose fetch added at least one item
\* appends one stamped entry to the history it loaded, and one that added
\* none leaves the history as it is; the stored history holds at most 50
\* entries, the most recent of the history written, in chronological order.
C19_UpdateWithNewItemsAppends ==
    [][/\ HistoryKept
       /\ \A u \in UpdateIds :
            Fetching(u) =>
              IF Federal(udoc'[u]) # Federal(udoc[u])
                THEN Appended(History(udoc[u]), History(udoc'[u]))
                ELSE History(udoc'[u]) = History(udoc[u])
      ]_vars

\* An entry was appended to a stored history of 50: it still holds 50, the
\* oldest is gone and the last is the new one.
C19_Witness ==
    /\ Written
    /\ Len(History(knowledge.data)) = HistoryCap
    /\ History(knowledge.data)[1].timestamp = 2 - HistoryCap
    /\ History(knowledge.data)[HistoryCap].timestamp >= 1

\* A recording completes its write in this step.
Recorded(s) == pc[s] = "L442" /\ pc'[s] = "L273" /\ knowledge' # knowledge

Observations(d) == Titles(d.pricing_observations)

\* C20: no change of the knowledge document is lost, however insight
\* recordings and updates interleave: every recording that is written makes
\* the persisted analyses counter grow by one, and a write never removes a
\* federal item or a pricing observation the document holds (the caps of 20
\* and 100 apart), so the document holds them all once every recording and
\* update has finished.
C20_NoLostUpdate ==
    [][/\ \A s \in Started :
            Recorded(s) => knowledge'.data.analyses_count
                             = knowledge.data.analyses_count + 1
       /\ knowledge'.data.analyses_count >= knowledge.data.analyses_count
       /\ Len(Federal(knowledge'.data)) < FederalCap
            => Titles(Federal(knowledge.data))
                 \subseteq Titles(Federal(knowledge'.data))
       /\ Len(knowledge'.data.pricing_observations) < ObservationCap
            => Observations(knowledge.data)
                 \subseteq Observations(knowledge'.data)
      ]_vars

\* C21: every completed write of the knowledge document increments the
\* persisted update counter by exactly one, whoever writes (an update of
\* the worker, a manual update, an insight recording) and however they
\* interleave, so the counter is its initial value plus the number of
\* completed writes.
C21_CounterCountsWrites ==
    [][knowledge' # knowledge
         => knowledge'.data.update_count = knowledge.data.update_count + 1
      ]_vars

\* An entry that says "not specified", in whatever letter case.
NotSpecified(e) ==
    /\ Len(e) >= 13
    /\ [i \in 1..13 |-> Lower(e[i])]
         = <<"n", "o", "t", " ", "s", "p", "e", "c", "i", "f", "i", "e", "d">>

\* An entry holds a percentage number: a number followed by "%".
HoldsPercentage(e) == \E i \in 1..Len(e) : MatchAt(e, i)

\* The first percentage number of an entry that holds one, in tenths.
FirstPercentage(e) ==
    LET i == CHOOSE k \in 1..Len(e) :
                 MatchAt(e, k) /\ \A l \in 1..(k - 1) : ~MatchAt(e, l)
    IN  FloatTenths(e, i, NumberEnd(e, i))

Parseable(e) == HoldsPercentage(e) /\ ~NotSpecified(e)

RECURSIVE SumOfFirst(_)
SumOfFirst(entries) ==
    IF entries = <<>> THEN 0
    ELSE FirstPercentage(Head(entries)) + SumOfFirst(Tail(entries))

\* The text "AWP-X.X%" for X.X = t tenths.
AwpText(t) ==
    <<"A", "W", "P", "-">> \o Decimal(t \div 10)
    \o <<".", DigitChars[(t % 10) + 1], "%">>

\* C24: the average of a list of pricing fields is "N/A" exactly when no
\* entry is parseable, and otherwise "AWP-X.X%" where X.X is the mean,
\* to the nearest tenth, of the first percentage number of each parseable
\* entry; entries without a percentage number and "not specified" entries
\* count neither in the sum nor in the number of entries.  The list
\* ["AWP-18%", "Not specified in contract", "AWP-22%"] gives "AWP-20.0%".
C24_AverageOfParseable ==
    avg_brand_retail # <<>> =>
        LET counted == SelectSeq(brand_retails, Parseable)
            n == Len(counted)
            total == SumOfFirst(counted)
        IN  /\ avg_brand_retail = NotAvailable <=> n = 0
            /\ n > 0 =>
                 \E t \in {total \div n, (total \div n) + 1} :
                     /\ avg_brand_retail = AwpText(t)
                     /\ 2 * (total - n * t) <= n
                     /\ 2 * (n * t - total) <= n
            /\ brand_retails = <<<<"A", "W", "P", "-", "1", "8", "%">>,
                                 <<"N", "o", "t", " ", "s", "p", "e", "c", "i", "f", "i", "e", "d", " ", "i", "n", " ", "c", "o", "n", "t", "r", "a", "c", "t">>,
                                 <<"A", "W", "P", "-", "2", "2", "%">>>>
                 => avg_brand_retail = <<"A", "W", "P", "-", "2", "0", ".", "0", "%">>

\* The save_lead jobs and the lead rows of a session.
LeadsOf(s) ==
    Cardinality({i \in 1..Len(lead_jobs) : lead_jobs[i] = s})
    + Cardinality({i \in 1..Len(leads) : leads[i] = s})

\* C25: a report request for a session that is not COMPLETE is answered
\* with a 400 that names the current status and changes nothing: the
\* session gets no contact record and no report handle, and no lead is
\* saved for it; a request for an unknown identifier is answered 404, every
\* time.  So a report handle, and a download that succeeds, exist only for
\* sessions that are COMPLETE.
C25_ReportOnlyIfComplete ==
    /\ [](\A s \in SessionIds :
            /\ s \notin Started
                 => \A b \in BOOLEAN :
                       report_code(s, b) = 404 /\ download_code(s, b) = 404
            /\ s \in Started /\ sessions[s].status # COMPLETE
                 => /\ \A b \in BOOLEAN :
                          report_code(s, b) = 400 /\ download_code(s, b) = 404
                    /\ report_detail(s)[2] = sessions[s].status
                    /\ ~sessions[s].contact_info
                    /\ ~sessions[s].pdf_path
                    /\ LeadsOf(s) = 0
            /\ s \in Started /\ sessions[s].pdf_path
                 => sessions[s].status = COMPLETE)
    /\ [][\A s \in Started :
            sessions[s].status # COMPLETE
              => /\ sessions'[s].contact_info = sessions[s].contact_info
                 /\ sessions'[s].pdf_path = sessions[s].pdf_path
                 /\ LeadsOf(s)' = LeadsOf(s)
         ]_vars

\* A run has failed and ended: a report request for its session is answered
\* 400 and a download 404.
C25_Witness ==
    \E s \in Started :
        /\ pc[s] = "done"
        /\ sessions[s].status = ERROR
        /\ report_code(s, TRUE) = 400
        /\ download_code(s, TRUE) = 404

\* The fields of a session that its run writes.
RunFields(d) == <<d.status, d.status_message, d.analysis_result, d.error_message>>

Admissible(p) ==
    /\ p.fields_ok
    /\ p.grade \in DOMAIN GRADE_ORDER
    /\ \A i \in 1..Len(p.risk_levels) : p.risk_levels[i] \in RiskLevels

\* C27: the analysis result of a COMPLETE session has an overall grade among
\* A, B, C, D, F and risk levels among high, medium, low; a tool_use input
\* with another grade or risk level, or without a required field, fails
\* deserialization: its session is never COMPLETE, and ERROR when the run
\* returns.
C27_GradeAndRiskValidated ==
    \A s \in Started :
        /\ sessions[s].status = COMPLETE
             => /\ sessions[s].analysis_result.grade \in DOMAIN GRADE_ORDER
                /\ \A i \in 1..Len(sessions[s].analysis_result.risk_levels) :
                      sessions[s].analysis_result.risk_levels[i] \in RiskLevels
        /\ response[s].payload.tool_use /\ ~Admissible(response[s].payload)
             => /\ sessions[s].status # COMPLETE
                /\ pc[s] = "return" => sessions[s].status = ERROR

\* C28: under every interleaving of the run with polls and report requests,
\* a COMPLETE session has an analysis result (the result is published
\* before the status) and an ERROR session has none, so a report request
\* that passes the check of the status finds a result.
C28_ResultIffComplete ==
    \A s \in Started :
        /\ sessions[s].status = COMPLETE => sessions[s].analysis_result.present
        /\ sessions[s].status = ERROR => ~sessions[s].analysis_result.present
        /\ \A b \in BOOLEAN :
              report_code(s, b) \in {200, 500}
                => sessions[s].analysis_result.present

\* A report was generated for a session in the state right after its run
\* published COMPLETE.
C28_Witness ==
    \E s \in Started :
        /\ pc[s] = "L263"
        /\ sessions[s].pdf_path
        /\ sessions[s].analysis_result.present

\* C29: a status poll, at whatever point of the run it is served, that
\* returns a terminal status returns the fields that belong to it: with
\* ERROR the message "Analysis failed" and a non-empty error message, with
\* COMPLETE the message "Analysis complete" and an empty error message.
C29_TerminalFieldsTogether ==
    \A s \in SessionIds :
        /\ status_response(s).status = ERROR
             => /\ status_response(s).status_message = "Analysis failed"
                /\ status_response(s).error_message # ""
        /\ status_response(s).status = COMPLETE
             => /\ status_response(s).status_message = "Analysis complete"
                /\ status_response(s).error_message = ""

\* The files.delete calls a run has made, in order.
DeleteCalls(s) == SelectSeq(calls[s], LAMBDA c : c.op = "files.delete")

\* C30: a run whose staging succeeded attempts the deletion of the staged
\* upload exactly once before it ends, whether it ends in COMPLETE or in
\* ERROR; a run whose staging failed attempts none.
C30_StagedUploadDeleted ==
    \A s \in Started :
        /\ Len(DeleteCalls(s)) <= 1
        /\ ~file_id[s] => DeleteCalls(s) = <<>>
        /\ pc[s] = "return" /\ file_id[s] => Len(DeleteCalls(s)) = 1

\* A thread is inside the lock of the knowledge file at the file work of
\* load_knowledge (line 367) or of save_knowledge (line 385).
InsideLock(u) == upc[u] \in {"L367", "L385"}

Exhausted == \A u \in UpdateIds : upc[u] # "none"

====
